---- MODULE Spec2Model ----
(***************************************************************************)
(* MoleculeML: the transfer-learning notebook main.ipynb as a state        *)
(* machine.  A state is the notebook's global variables, the three Keras   *)
(* callbacks' fields and the position of the cell that runs next.          *)
(*                                                                         *)
(* Numbers.  The monitored metric val_predictor_rmse is carried in units   *)
(* of 5e-5 (half the default min_delta of ReduceLROnPlateau), so a         *)
(* validation error is a natural number, NaN is the non-finite value and   *)
(* Inf the initial "best" of the callbacks.  The learning rate is carried  *)
(* as the number of times it was multiplied by the factor 0.1.             *)
(*                                                                         *)
(* Callbacks.  The notebook uses tensorflow.keras as of Keras 2 (it saves  *)
(* weights to best_model.h5 and writes LeakyReLU(alpha=...)), so the three *)
(* callbacks behave as in that version: EarlyStopping restores the best    *)
(* weights in on_epoch_end, at the epoch that stops training, and only     *)
(* there; mode "auto" on val_predictor_rmse compares with np.less.         *)
(***************************************************************************)
EXTENDS Integers, Sequences, FiniteSets

\* ------------------------------------------------------------------ bounds
\* largest finite validation error an epoch can report (units of 5e-5)
MaxErr == 4

\* rows of the pretraining and of the training file; most rows of the test file
NRows == 2
NTest == 3
\* largest scalar a fitted regressor returns
MaxPred == 1
\* widths tried for create_combined_model, around the default
DimSpread == 2
\* largest bit width tried for smiles_to_fp besides its default
MaxBits == 3

\* ------------------------------------------------------- program constants
ES_patience == 20
RLR_patience == 5
epochs == 100
\* np.Inf and a non-finite metric value
Inf == 1000000
NaN == -1
\* ReduceLROnPlateau(min_delta=1e-4), EarlyStopping(min_delta=0), in units of 5e-5
RLR_min_delta == 2
ES_min_delta == 0

\* the values one epoch's validation pass can report
ValErrs == (0..MaxErr) \cup {NaN}

\* ------------------------------------------------- molecules, fingerprints
\* a 0/1 numpy vector, kept as its length and the set of positions holding 1
\* (positions count from 0)
Vec(n, on) == [len |-> n, on |-> on]

\* (variant: the second array comes first)
np_concatenate_swapped(a, b) == Vec(a.len + b.len, b.on \cup {b.len + i : i \in a.on})

\* np.concatenate([a, b])
np_concatenate(a, b) == Vec(a.len + b.len, a.on \cup {a.len + i : i \in b.on})

\* the descriptors of the model: two molecules RDKit parses and one it does
\* not; for a parsed molecule, the identifiers of its atom environments by
\* radius (what the Morgan algorithm hashes) and its MACCS keys
ValidSmiles == {"C", "CC"}
Smiles == ValidSmiles \cup {"C("}
None == [none |-> TRUE]
Chem_MolFromSmiles(smiles) ==
    CASE smiles = "C"  -> [envs |-> {[r |-> 0, h |-> 4105]},
                           keys |-> {160}]
      [] smiles = "CC" -> [envs |-> {[r |-> 0, h |-> 2246], [r |-> 1, h |-> 6057]},
                           keys |-> {114, 160}]
      [] OTHER         -> None

\* MACCSkeys.GenMACCSKeys: a bit vector of 167 bits
MACCS_len == 167
GenMACCSKeys(mol) == Vec(MACCS_len, mol.keys)

\* AllChem.GetMorganFingerprintAsBitVect(mol, radius, nBits): the environments
\* up to the radius, hashed and folded to nBits positions
GetMorganFingerprintAsBitVect(mol, radius, nBits) ==
    Vec(nBits, {e.h % nBits : e \in {x \in mol.envs : x.r <= radius}})

\* smiles_to_fp(smiles, radius=2, n_bits=2000); RDKit raises on a None molecule
default_radius == 2
default_n_bits == 2000

\* (variant: an unparseable descriptor gives the zero vector instead of raising)
smiles_to_fp_zero_vector(smiles, radius, n_bits) ==
    LET mol == Chem_MolFromSmiles(smiles)
    IN  [raised |-> FALSE,
         fp |-> IF mol = None THEN Vec(n_bits + MACCS_len, {})
                ELSE np_concatenate(GetMorganFingerprintAsBitVect(mol, radius, n_bits),
                                    GenMACCSKeys(mol))]

smiles_to_fp(smiles, radius, n_bits) ==
    LET mol == Chem_MolFromSmiles(smiles)
    IN  IF mol = None
        THEN [raised |-> TRUE, fp |-> Vec(0, {})]
        ELSE [raised |-> FALSE,
              fp |-> np_concatenate(GetMorganFingerprintAsBitVect(mol, radius, n_bits),
                                    GenMACCSKeys(mol))]

\* the bit width smiles_to_fp runs with: the default of its parameter n_bits,
\* a hyperparameter fixed for a run
VARIABLE n_bits_run

\* convert_smiles_to_fingerprints(smiles_array): one fingerprint per element,
\* in order; the list comprehension raises at the first descriptor that fails
convert_smiles_to_fingerprints(smiles_array) ==
    LET one(i) == smiles_to_fp(smiles_array[i], default_radius, n_bits_run)
    IN  IF \E i \in 1..Len(smiles_array) : one(i).raised
        THEN [raised |-> TRUE, value |-> <<>>]
        ELSE [raised |-> FALSE,
              value |-> [i \in 1..Len(smiles_array) |-> one(i).fp]]

\* a csv file read with pd.read_csv(index_col="Id"): rows in file order
column(df, name) == [i \in 1..Len(df) |-> df[i][name]]

\* load_and_preprocess_data(file_name)
load_and_preprocess_data(file) == convert_smiles_to_fingerprints(column(file, "smiles"))


\* ---------------------------------------------------------- architecture
\* a Keras layer maps a width to a width: Dense(units) gives units, the
\* others (BatchNormalization, LeakyReLU, Dropout) keep the width
Dense(units) == [kind |-> "Dense", units |-> units]
Same(kind) == [kind |-> kind, units |-> 0]
layer_width(layer, w) == IF layer.kind = "Dense" THEN layer.units ELSE w

RECURSIVE stack_width(_, _)
stack_width(layers, w) ==
    IF layers = <<>> THEN w
    ELSE stack_width(Tail(layers), layer_width(Head(layers), w))

\* Model(inputs, outputs, name): the width it accepts and the width it gives
KerasModel(name, input_dim, layers) ==
    [name |-> name, input_width |-> input_dim,
     output_width |-> stack_width(layers, input_dim)]

default_input_dim == 2167
encoder_layers ==
    << Dense(2167), Same("BatchNormalization"), Same("LeakyReLU"), Same("Dropout"),
       Dense(2500), Same("BatchNormalization"), Same("LeakyReLU"), Same("Dropout"),
       Dense(2167) >>
decoder_layers ==
    << Dense(2000), Same("BatchNormalization"), Same("LeakyReLU"), Same("Dropout"),
       Dense(2167) >>
predictor_layers ==
    << Dense(256), Same("BatchNormalization"), Same("LeakyReLU"), Same("Dropout"),
       Dense(1) >>

create_encoder(input_dim) == KerasModel("encoder", input_dim, encoder_layers)
create_decoder(input_dim) == KerasModel("decoder", input_dim, decoder_layers)
create_predictor(input_dim) == KerasModel("predictor", input_dim, predictor_layers)

\* calling a model on a tensor: Keras raises ValueError unless the tensor has
\* the width the model was built for
accepts(m, width) == m.input_width = width

\* create_combined_model(input_dim): the three parts are built with their
\* default width, then wired to Input(shape=(input_dim,))
create_combined_model(input_dim) ==
    LET encoder   == create_encoder(default_input_dim)
        decoder   == create_decoder(default_input_dim)
        predictor == create_predictor(default_input_dim)
        wired     == /\ accepts(encoder, input_dim)
                     /\ accepts(decoder, encoder.output_width)
                     /\ accepts(predictor, encoder.output_width)
    IN  [raised  |-> ~wired,
         encoder |-> encoder,
         model   |-> [name |-> "combined", input_width |-> input_dim,
                      output_width |-> <<decoder.output_width, predictor.output_width>>]]

\* ------------------------------------------------ regressors and the score
\* a fitted regressor: what it was fitted on, and the scalar it returns for
\* each latent vector (named by the fingerprint the vector was encoded from)
Regressor(kind, X, Y, f) == [kind |-> kind, X |-> X, Y |-> Y, f |-> f]
NoModel == Regressor("none", <<>>, <<>>, <<>>)

\* encoder.predict(X) in inference mode: row i of the result is the encoding,
\* under the current weights, of row i of X
encode_one(w, fp) == [w |-> w.epoch, x |-> fp]

\* (variant: the rows of a batch interact, every row of the result is the
\* encoding of the first row of the batch)
encoder_predict_mixes_rows(enc, w, X) ==
    IF \E i \in 1..Len(X) : ~accepts(enc, X[i].len)
    THEN [raised |-> TRUE, value |-> <<>>]
    ELSE [raised |-> FALSE, value |-> [i \in 1..Len(X) |-> encode_one(w, X[1])]]

encoder_predict(enc, w, X) ==
    IF \E i \in 1..Len(X) : ~accepts(enc, X[i].len)
    THEN [raised |-> TRUE, value |-> <<>>]
    ELSE [raised |-> FALSE, value |-> [i \in 1..Len(X) |-> encode_one(w, X[i])]]

\* regressor.predict(Z): one scalar per row, in order
predict_one(m, z) == m.f[z.x]

\* (variant: the rows come back in reverse order)
regressor_predict_reversed(m, Z) ==
    [i \in 1..Len(Z) |-> predict_one(m, Z[Len(Z) + 1 - i])]

regressor_predict(m, Z) == [i \in 1..Len(Z) |-> predict_one(m, Z[i])]

\* rmse(x1, x2) = sqrt(mean((x1 - x2)^2)).  The model carries the sum of the
\* squared differences: both candidates are scored on the same y_val, so the
\* division by its length and the square root, both strictly increasing, keep
\* order and equality of the two scores
RECURSIVE sum_sq(_, _)
sum_sq(x1, x2) ==
    IF x1 = <<>> THEN 0
    ELSE (Head(x1) - Head(x2)) * (Head(x1) - Head(x2)) + sum_sq(Tail(x1), Tail(x2))
rmse(x1, x2) == sum_sq(x1, x2)

\* train_test_split(X, Y, test_size=0.1, random_state=42): a permutation of
\* the rows fixed by the seed; its first ceil(0.1 n) rows are held out
n_test(n) == (n + 9) \div 10
take(seq, perm, from, to) == [i \in 1..(to - from + 1) |-> seq[perm[from + i - 1]]]

\* (variant: the held-out rows are left in the fit subset as well)
train_test_split_overlapping(X, Y, perm) ==
    LET n == Len(X)
        k == n_test(n)
    IN  [raised |-> (Len(Y) # n \/ n - k < 1),
         x     |-> take(X, perm, 1, n),
         x_val |-> take(X, perm, 1, k),
         y     |-> take(Y, perm, 1, n),
         y_val |-> take(Y, perm, 1, k)]

train_test_split(X, Y, perm) ==
    LET n == Len(X)
        k == n_test(n)
    IN  [raised |-> (Len(Y) # n \/ n - k < 1),
         x     |-> take(X, perm, k + 1, n),
         x_val |-> take(X, perm, 1, k),
         y     |-> take(Y, perm, k + 1, n),
         y_val |-> take(Y, perm, 1, k)]

\* ------------------------------------------------------------------- state
VARIABLES
    pc,                  \* the notebook cell that runs next
    error,               \* the exception that stopped the run, "" if none
    files,               \* the csv files the notebook reads
    input_dim,           \* the width create_combined_model is called with
    pretrain_x_conjoint, pretrain_y,
    train_x_conjoint, train_y,
    test_df, test_x_conjoint,
    encoder,             \* the encoder model returned by create_combined_model
    weights,             \* the weights the combined model and the encoder share
    epoch,               \* epochs of model.fit completed
    stop_training,       \* model.stop_training
    es,                  \* early_stopping: wait, best, best_weights, stopped_epoch
    rlr,                 \* reduce_lr: wait, best
    optimizer_lr,        \* model.optimizer.lr = 0.01 * 0.1^optimizer_lr
    ckpt,                \* model_checkpoint: best, and the file best_model.h5
    history,             \* the History of model.fit, summarised
    encoded_train_x,
    split,               \* x, x_val, y, y_val
    lr, xgb,             \* the two fitted regressors
    scores,              \* lr_rmse, xgb_rmse
    best_model,
    encoded_test_x, predictions,
    results_csv          \* the rows written to results.csv

dataVars == <<files, input_dim, n_bits_run, pretrain_x_conjoint, pretrain_y,
              train_x_conjoint, train_y, test_df, test_x_conjoint>>
fitVars == <<encoder, weights, epoch, stop_training, es, rlr, optimizer_lr,
             ckpt, history>>
regVars == <<encoded_train_x, split, lr, xgb, scores, best_model>>
outVars == <<encoded_test_x, predictions, results_csv>>
vars == <<pc, error, dataVars, fitVars, regVars, outVars>>

\* weights are named by the epoch of model.fit that produced them; epoch 0 is
\* the initialisation, NoWeights is Python's None
Snapshot(e) == [epoch |-> e]
NoWeights == [epoch |-> -1]

\* np.less on floats: any comparison with NaN is False
np_less(a, b) == a # NaN /\ b # NaN /\ a < b

\* (variant: an equal value counts as an improvement)
ES_is_improvement_or_equal(current, best) ==
    current # NaN /\ best # NaN /\ current - ES_min_delta <= best

\* EarlyStopping._is_improvement, mode auto -> np.less, min_delta 0
ES_is_improvement(current, best) ==
    current # NaN /\ np_less(current - ES_min_delta, best)

\* (variant: min_delta = 0)
RLR_monitor_op_no_delta(current, best) == np_less(current, best)

\* ReduceLROnPlateau.monitor_op, mode auto -> np.less(a, b - min_delta)
RLR_monitor_op(current, best) ==
    current # NaN /\ np_less(current, best - RLR_min_delta)

\* (variant: an equal value is saved too)
CKPT_monitor_op_or_equal(current, best) ==
    current # NaN /\ best # NaN /\ current <= best

\* ModelCheckpoint.monitor_op, mode auto -> np.less
CKPT_monitor_op(current, best) == np_less(current, best)

\* (variant: restore_best_weights=False, the last epoch's weights stay)
ES_on_epoch_end_no_restore(s, idx, current, w) ==
    LET wait == s.wait + 1
    IN  IF ES_is_improvement(current, s.best)
        THEN [es   |-> [wait |-> 0, best |-> current, best_weights |-> NoWeights,
                        stopped_epoch |-> s.stopped_epoch],
              stop |-> FALSE, weights |-> w]
        ELSE [es   |-> [wait |-> wait, best |-> s.best, best_weights |-> NoWeights,
                        stopped_epoch |-> IF wait >= ES_patience /\ idx > 0
                                          THEN idx ELSE s.stopped_epoch],
              stop |-> wait >= ES_patience /\ idx > 0, weights |-> w]

\* EarlyStopping.on_epoch_end(idx, logs) with the weights w the epoch left
ES_on_epoch_end(s, idx, current, w) ==
    LET bw0  == IF s.best_weights = NoWeights THEN w ELSE s.best_weights
        wait == s.wait + 1
    IN  IF ES_is_improvement(current, s.best)
        THEN [es   |-> [wait |-> 0, best |-> current, best_weights |-> w,
                        stopped_epoch |-> s.stopped_epoch],
              stop |-> FALSE, weights |-> w]
        ELSE IF wait >= ES_patience /\ idx > 0
        THEN [es   |-> [wait |-> wait, best |-> s.best, best_weights |-> bw0,
                        stopped_epoch |-> idx],
              stop |-> TRUE, weights |-> bw0]
        ELSE [es   |-> [wait |-> wait, best |-> s.best, best_weights |-> bw0,
                        stopped_epoch |-> s.stopped_epoch],
              stop |-> FALSE, weights |-> w]

\* (variant: the patience of the step-size rule exceeds that of early stopping)
RLR_on_epoch_end_patient(s, rate, current) ==
    IF RLR_monitor_op(current, s.best)
    THEN [rlr |-> [wait |-> 0, best |-> current], lr |-> rate]
    ELSE IF s.wait + 1 >= ES_patience + 1
    THEN [rlr |-> [wait |-> 0, best |-> s.best], lr |-> rate + 1]
    ELSE [rlr |-> [wait |-> s.wait + 1, best |-> s.best], lr |-> rate]

\* ReduceLROnPlateau.on_epoch_end (cooldown = 0, min_lr = 0)
RLR_on_epoch_end(s, rate, current) ==
    IF RLR_monitor_op(current, s.best)
    THEN [rlr |-> [wait |-> 0, best |-> current], lr |-> rate]
    ELSE IF s.wait + 1 >= RLR_patience
    THEN [rlr |-> [wait |-> 0, best |-> s.best], lr |-> rate + 1]
    ELSE [rlr |-> [wait |-> s.wait + 1, best |-> s.best], lr |-> rate]

\* ModelCheckpoint.on_epoch_end (save_best_only): saves the weights the model
\* holds when the callback runs
CKPT_on_epoch_end(s, current, w) ==
    IF CKPT_monitor_op(current, s.best)
    THEN [best |-> current, file |-> w]
    ELSE s

\* History.on_epoch_end appends the epoch's logs.  Kept of the logged values
\* of val_predictor_rmse: the lowest finite one, the first epoch that logged
\* it, the number of epochs since, whether the last epoch logged that lowest
\* value again, and the learning rate that epoch ended with; whether a
\* non-finite one was logged; and
\* the plateau count: epochs since the value last fell more than 1e-4 below
\* the value it last fell to that way, counted in rounds of five
Plateau_threshold == 2
Plateau_len == 5
History_on_epoch_end(h, e, current, rate) ==
    LET low == np_less(current, h.lowest)
        fell == current # NaN /\ current < h.plateauBest - Plateau_threshold
    IN  [lowest      |-> IF low THEN current ELSE h.lowest,
         lowestEpoch |-> IF low THEN e ELSE h.lowestEpoch,
         streak      |-> IF low THEN 0 ELSE h.streak + 1,
         atLowest    |-> low \/ (current # NaN /\ current = h.lowest),
         lrAtLowest  |-> IF low THEN rate ELSE h.lrAtLowest,
         nan         |-> h.nan \/ current = NaN,
         plateauBest |-> IF fell THEN current ELSE h.plateauBest,
         plateau     |-> IF fell THEN 0 ELSE (h.plateau % Plateau_len) + 1]

\* ------------------------------------------------------------------ inputs
FeatureRows(n) ==
    [i \in 1..n |-> [Id |-> i, smiles |-> IF i % 2 = 1 THEN "C" ELSE "CC"]]
LabelRows(n) == [i \in 1..n |-> [Id |-> i, y |-> (i - 1) % (MaxPred + 1)]]
Spoiled(rows) == {[rows EXCEPT ![i].smiles = "C("] : i \in DOMAIN rows}
AnyFeatureRows(n) ==
    {[i \in 1..n |-> [Id |-> i, smiles |-> d[i]]] : d \in [1..n -> Smiles]}
RowPermutations(n) == {p \in [1..n -> 1..n] : \A i, j \in 1..n : p[i] = p[j] => i = j}
Identity(n) == [i \in 1..n |-> i]

\* a fitted regressor is a function on all vectors; the model tabulates it on
\* the fingerprints of the parsed descriptors and on the zero vector
Fingerprints ==
    {smiles_to_fp(d, default_radius, default_n_bits).fp : d \in ValidSmiles}
        \cup {Vec(default_n_bits + MACCS_len, {})}
Fns == [Fingerprints -> 0..MaxPred]
Flat == [fp \in Fingerprints |-> 0]
Dims == (default_input_dim - DimSpread)..(default_input_dim + DimSpread)
NBits == (1..MaxBits) \cup {default_n_bits}

NoKeras == [name |-> "none", input_width |-> 0, output_width |-> 0]
NoSplit == [x |-> <<>>, x_val |-> <<>>, y |-> <<>>, y_val |-> <<>>]
NoScores == [lr_rmse |-> 0, xgb_rmse |-> 0]
NewEarlyStopping ==
    [wait |-> 0, best |-> Inf, best_weights |-> NoWeights, stopped_epoch |-> 0]
NewReduceLR == [wait |-> 0, best |-> Inf]
NewCheckpoint == [best |-> Inf, file |-> NoWeights]
NewHistory ==
    [lowest |-> Inf, lowestEpoch |-> 0, streak |-> 0, atLowest |-> FALSE,
     lrAtLowest |-> 0, nan |-> FALSE,
     plateauBest |-> Inf, plateau |-> 0]

\* the state before the first cell runs, for given files, width of the model
\* and bit width of the fingerprint
StartWith(f, d, n) ==
    /\ pc = "load_pretrain"
    /\ error = ""
    /\ files = f
    /\ input_dim = d
    /\ n_bits_run = n
    /\ pretrain_x_conjoint = <<>> /\ pretrain_y = <<>>
    /\ train_x_conjoint = <<>> /\ train_y = <<>>
    /\ test_df = <<>> /\ test_x_conjoint = <<>>
    /\ encoder = NoKeras
    /\ weights = NoWeights
    /\ epoch = 0
    /\ stop_training = FALSE
    /\ es = NewEarlyStopping
    /\ rlr = NewReduceLR
    /\ optimizer_lr = 0
    /\ ckpt = NewCheckpoint
    /\ history = NewHistory
    /\ encoded_train_x = <<>>
    /\ split = NoSplit
    /\ lr = NoModel /\ xgb = NoModel
    /\ scores = NoScores
    /\ best_model = NoModel
    /\ encoded_test_x = <<>> /\ predictions = <<>>
    /\ results_csv = <<>>

\* the notebook as written: smiles_to_fp(s) is called with its default n_bits
Start(f, d) == StartWith(f, d, default_n_bits)

Files(pre, tr, te) ==
    [pretrain_features |-> pre, pretrain_labels |-> LabelRows(Len(pre)),
     train_features |-> tr, train_labels |-> LabelRows(Len(tr)),
     test_features |-> te]

\* one well-formed data set, and the same with a malformed test descriptor
Init ==
    \E te \in {FeatureRows(NTest)} \cup Spoiled(FeatureRows(NTest)) :
        Start(Files(FeatureRows(NRows), FeatureRows(NRows), te), default_input_dim)

\* every test file of up to NTest rows; pretraining and training files with
\* at most one malformed descriptor
InitData ==
    \E pre \in {FeatureRows(NRows)} \cup Spoiled(FeatureRows(NRows)),
       tr \in {FeatureRows(NRows)} \cup Spoiled(FeatureRows(NRows)),
       te \in UNION {AnyFeatureRows(n) : n \in 1..NTest} :
        Start(Files(pre, tr, te), default_input_dim)

\* every width around the default
InitBuild ==
    \E d \in Dims, te \in {FeatureRows(NTest)} \cup Spoiled(FeatureRows(NTest)) :
        Start(Files(FeatureRows(NRows), FeatureRows(NRows), te), d)

\* every bit width of the fingerprint, small ones and the default
InitFp ==
    \E n \in NBits, te \in {FeatureRows(NTest)} \cup Spoiled(FeatureRows(NTest)) :
        StartWith(Files(FeatureRows(NRows), FeatureRows(NRows), te), default_input_dim, n)

\* the rows of a file in another order
Reordered(rows) == {[i \in DOMAIN rows |-> rows[p[i]]] : p \in RowPermutations(Len(rows))}

\* every row order of the features files and of the labels files of the
\* pretraining and training sets
InitLabels ==
    \E pre \in Reordered(FeatureRows(NRows)), prel \in Reordered(LabelRows(NRows)),
       tr \in Reordered(FeatureRows(NRows)), trl \in Reordered(LabelRows(NRows)) :
        StartWith([pretrain_features |-> pre, pretrain_labels |-> prel,
                   train_features |-> tr, train_labels |-> trl,
                   test_features |-> FeatureRows(NTest)],
                  default_input_dim, default_n_bits)

\* ------------------------------------------------------------------- cells
\* an exception ends the run at the cell that raised it
Raise(name) == pc' = "error" /\ error' = name

\* pretrain_x_conjoint = load_and_preprocess_data(...); pretrain_y = read_csv(...)
LoadPretrain ==
    /\ pc = "load_pretrain"
    /\ LET r == load_and_preprocess_data(files.pretrain_features)
       IN  IF r.raised
           THEN Raise("ArgumentError") /\ UNCHANGED <<pretrain_x_conjoint, pretrain_y>>
           ELSE /\ pretrain_x_conjoint' = r.value
                /\ pretrain_y' = column(files.pretrain_labels, "y")
                /\ pc' = "load_train"
                /\ UNCHANGED error
    /\ UNCHANGED <<files, input_dim, n_bits_run, train_x_conjoint, train_y, test_df,
                   test_x_conjoint, fitVars, regVars, outVars>>

\* train_x_conjoint = load_and_preprocess_data(...); train_y = read_csv(...)
LoadTrain ==
    /\ pc = "load_train"
    /\ LET r == load_and_preprocess_data(files.train_features)
       IN  IF r.raised
           THEN Raise("ArgumentError") /\ UNCHANGED <<train_x_conjoint, train_y>>
           ELSE /\ train_x_conjoint' = r.value
                /\ train_y' = column(files.train_labels, "y")
                /\ pc' = "load_test"
                /\ UNCHANGED error
    /\ UNCHANGED <<files, input_dim, n_bits_run, pretrain_x_conjoint, pretrain_y, test_df,
                   test_x_conjoint, fitVars, regVars, outVars>>

\* test_df = read_csv(...); test_x = test_df['smiles'];
\* test_x_conjoint = convert_smiles_to_fingerprints(test_x)
LoadTest ==
    /\ pc = "load_test"
    /\ test_df' = files.test_features
    /\ LET r == convert_smiles_to_fingerprints(column(files.test_features, "smiles"))
       IN  IF r.raised
           THEN Raise("ArgumentError") /\ UNCHANGED test_x_conjoint
           ELSE /\ test_x_conjoint' = r.value
                /\ pc' = "create_model"
                /\ UNCHANGED error
    /\ UNCHANGED <<files, input_dim, n_bits_run, pretrain_x_conjoint, pretrain_y,
                   train_x_conjoint, train_y, fitVars, regVars, outVars>>

\* model, encoder = create_combined_model()
CreateModel ==
    /\ pc = "create_model"
    /\ LET r == create_combined_model(input_dim)
       IN  IF r.raised
           THEN Raise("ValueError") /\ UNCHANGED <<encoder, weights>>
           ELSE /\ encoder' = r.encoder
                /\ weights' = Snapshot(0)
                /\ pc' = "callbacks"
                /\ UNCHANGED error
    /\ UNCHANGED <<dataVars, epoch, stop_training, es, rlr, optimizer_lr, ckpt,
                   history, regVars, outVars>>

\* early_stopping, reduce_lr, model_checkpoint are constructed
Callbacks ==
    /\ pc = "callbacks"
    /\ es' = NewEarlyStopping
    /\ rlr' = NewReduceLR
    /\ ckpt' = NewCheckpoint
    /\ pc' = "fit"
    /\ UNCHANGED <<error, dataVars, encoder, weights, epoch, stop_training,
                   optimizer_lr, history, regVars, outVars>>

\* model.fit(pretrain_x_conjoint, [pretrain_x_conjoint, pretrain_y], ...)
\* checks its arrays, then on_train_begin resets the callbacks
FitBegin ==
    /\ pc = "fit"
    /\ IF \/ Len(pretrain_x_conjoint) # Len(pretrain_y)
          \/ \E i \in 1..Len(pretrain_x_conjoint) :
                 pretrain_x_conjoint[i].len # input_dim
       THEN Raise("ValueError") /\ UNCHANGED <<es, rlr, history, stop_training>>
       ELSE /\ es' = NewEarlyStopping
            /\ rlr' = NewReduceLR
            /\ history' = NewHistory
            /\ stop_training' = FALSE
            /\ pc' = "epochs"
            /\ UNCHANGED error
    /\ UNCHANGED <<dataVars, encoder, weights, epoch, optimizer_lr, ckpt, regVars,
                   outVars>>

\* one epoch of model.fit: the training pass, the validation pass reporting
\* v, then callbacks = [early_stopping, reduce_lr, model_checkpoint] in order
EpochEnd(v) ==
    /\ pc = "epochs"
    /\ ~stop_training
    /\ epoch < epochs
    /\ LET w == Snapshot(epoch + 1)
           a == ES_on_epoch_end(es, epoch, v, w)
           b == RLR_on_epoch_end(rlr, optimizer_lr, v)
       IN  /\ es' = a.es
           /\ stop_training' = a.stop
           /\ weights' = a.weights
           /\ rlr' = b.rlr
           /\ optimizer_lr' = b.lr
           /\ ckpt' = CKPT_on_epoch_end(ckpt, v, a.weights)
           /\ history' = History_on_epoch_end(history, epoch + 1, v, b.lr)
    /\ epoch' = epoch + 1
    /\ UNCHANGED <<pc, error, dataVars, encoder, regVars, outVars>>

\* (variant: the loop over the epochs ends only when stop_training is set)
FitEnd_only_when_stopped ==
    /\ pc = "epochs"
    /\ stop_training
    /\ pc' = "extract"
    /\ UNCHANGED <<error, dataVars, fitVars, regVars, outVars>>

\* model.fit returns: stop_training was set, or all the epochs ran
FitEnd ==
    /\ pc = "epochs"
    /\ (stop_training \/ epoch >= epochs)
    /\ pc' = "extract"
    /\ UNCHANGED <<error, dataVars, fitVars, regVars, outVars>>

\* (variant: extraction runs one more training pass over the encoder first)
Extract_retrains ==
    /\ pc = "extract"
    /\ weights' = Snapshot(epoch + 1)
    /\ LET r == encoder_predict(encoder, weights, train_x_conjoint)
       IN  IF r.raised
           THEN Raise("ValueError") /\ UNCHANGED encoded_train_x
           ELSE /\ encoded_train_x' = r.value
                /\ pc' = "split"
                /\ UNCHANGED error
    /\ UNCHANGED <<dataVars, encoder, epoch, stop_training, es, rlr, optimizer_lr,
                   ckpt, history, split, lr, xgb, scores, best_model, outVars>>

\* encoded_train_x = encoder.predict(train_x_conjoint)
Extract ==
    /\ pc = "extract"
    /\ LET r == encoder_predict(encoder, weights, train_x_conjoint)
       IN  IF r.raised
           THEN Raise("ValueError") /\ UNCHANGED encoded_train_x
           ELSE /\ encoded_train_x' = r.value
                /\ pc' = "split"
                /\ UNCHANGED error
    /\ UNCHANGED <<dataVars, fitVars, split, lr, xgb, scores, best_model, outVars>>

\* x, x_val, y, y_val = train_test_split(encoded_train_x, train_y, ...)
Split(perm) ==
    /\ pc = "split"
    /\ LET r == train_test_split(encoded_train_x, train_y, perm)
       IN  IF r.raised
           THEN Raise("ValueError") /\ UNCHANGED split
           ELSE /\ split' = [x |-> r.x, x_val |-> r.x_val, y |-> r.y, y_val |-> r.y_val]
                /\ pc' = "fit_lr"
                /\ UNCHANGED error
    /\ UNCHANGED <<dataVars, fitVars, encoded_train_x, lr, xgb, scores, best_model,
                   outVars>>

\* lr = LinearRegression().fit(x, y); f is the function the fit arrives at
FitLR(f) ==
    /\ pc = "fit_lr"
    /\ lr' = Regressor("lr", split.x, split.y, f)
    /\ pc' = "fit_xgb"
    /\ UNCHANGED <<error, dataVars, fitVars, encoded_train_x, split, xgb, scores,
                   best_model, outVars>>

\* xgb = XGBRegressor(tree_method='gpu_hist').fit(x, y)
FitXGB(f) ==
    /\ pc = "fit_xgb"
    /\ xgb' = Regressor("xgb", split.x, split.y, f)
    /\ pc' = "test_models"
    /\ UNCHANGED <<error, dataVars, fitVars, encoded_train_x, split, lr, scores,
                   best_model, outVars>>

\* lr_rmse = rmse(y_val, lr.predict(x_val)); xgb_rmse = rmse(y_val, xgb.predict(x_val))
TestModels ==
    /\ pc = "test_models"
    /\ scores' = [lr_rmse  |-> rmse(split.y_val, regressor_predict(lr, split.x_val)),
                  xgb_rmse |-> rmse(split.y_val, regressor_predict(xgb, split.x_val))]
    /\ pc' = "select"
    /\ UNCHANGED <<error, dataVars, fitVars, encoded_train_x, split, lr, xgb,
                   best_model, outVars>>

\* (variant: the comparison is the wrong way round)
select_best_higher(lr_rmse, xgb_rmse) == IF lr_rmse > xgb_rmse THEN "lr" ELSE "xgb"

\* if lr_rmse < xgb_rmse: best_model = lr  else: best_model = xgb
select_best(lr_rmse, xgb_rmse) == IF lr_rmse < xgb_rmse THEN "lr" ELSE "xgb"
Select ==
    /\ pc = "select"
    /\ best_model' = IF select_best(scores.lr_rmse, scores.xgb_rmse) = "lr"
                     THEN lr ELSE xgb
    /\ pc' = "predict"
    /\ UNCHANGED <<error, dataVars, fitVars, encoded_train_x, split, lr, xgb, scores,
                   outVars>>

\* (variant: the prediction cell stands before the selection cell and
\* predicts with lr)
Predict_before_select ==
    /\ pc = "select"
    /\ LET r == encoder_predict(encoder, weights, test_x_conjoint)
       IN  IF r.raised
           THEN Raise("ValueError") /\ UNCHANGED <<encoded_test_x, predictions>>
           ELSE /\ encoded_test_x' = r.value
                /\ predictions' = regressor_predict(lr, r.value)
                /\ pc' = "save"
                /\ UNCHANGED error
    /\ UNCHANGED <<dataVars, fitVars, regVars, results_csv>>

\* encoded_test_x = encoder.predict(test_x_conjoint)
\* predictions = best_model.predict(encoded_test_x)
Predict ==
    /\ pc = "predict"
    /\ LET r == encoder_predict(encoder, weights, test_x_conjoint)
       IN  IF r.raised
           THEN Raise("ValueError") /\ UNCHANGED <<encoded_test_x, predictions>>
           ELSE /\ encoded_test_x' = r.value
                /\ predictions' = regressor_predict(best_model, r.value)
                /\ pc' = "save"
                /\ UNCHANGED error
    /\ UNCHANGED <<dataVars, fitVars, regVars, results_csv>>

\* df_pred = pd.DataFrame({"y": predictions}, index=test_df.index)
\* df_pred.to_csv("results.csv", index_label="Id")
DataFrame(values, index) == [i \in 1..Len(index) |-> [Id |-> index[i], y |-> values[i]]]
Save ==
    /\ pc = "save"
    /\ IF Len(predictions) # Len(test_df)
       THEN Raise("ValueError") /\ UNCHANGED results_csv
       ELSE /\ results_csv' = DataFrame(predictions, column(test_df, "Id"))
            /\ pc' = "done"
            /\ UNCHANGED error
    /\ UNCHANGED <<dataVars, fitVars, regVars, encoded_test_x, predictions>>

\* ---------------------------------------------------------- specifications
\* the cells in notebook order; E, P and F are the sets the validation error
\* of an epoch, the permutation of the split and the fitted functions are
\* drawn from
Cells(E, P, F) ==
    \/ LoadPretrain
    \/ LoadTrain
    \/ LoadTest
    \/ CreateModel
    \/ Callbacks
    \/ FitBegin
    \/ \E v \in E : EpochEnd(v)
    \/ FitEnd
    \/ Extract
    \/ \E perm \in P : Split(perm)
    \/ \E f \in F : FitLR(f)
    \/ \E f \in F : FitXGB(f)
    \/ TestModels
    \/ Select
    \/ Predict
    \/ Save

\* every validation curve, on one data set
Next == Cells(ValErrs, {Identity(NRows)}, {Flat})
Spec == Init /\ [][Next]_vars

\* the same, for a notebook that is run to its end: the interpreter runs the
\* loop of model.fit and then each following cell as long as one can run
SpecLive == Init /\ [][Next]_vars /\ WF_vars(Next)

\* every data set, split and pair of fitted functions, on one validation curve
NextData == Cells({0}, RowPermutations(NRows), Fns)
SpecData == InitData /\ [][NextData]_vars

\* every width, on one validation curve
SpecBuild == InitBuild /\ [][NextData]_vars

\* every bit width, on one validation curve
SpecFp == InitFp /\ [][NextData]_vars

\* every row order of the files, every split, on one validation curve
NextLabels == Cells({0}, RowPermutations(NRows), {Flat})
SpecLabels == InitLabels /\ [][NextLabels]_vars

\* ------------------------------------------------------------------ claims
\* training has returned because early_stopping set stop_training
StoppedEarly == stop_training /\ es.stopped_epoch > 0

\* C1: when training is ended by the early-stopping rule, the weights in
\* effect from then on are those of the first epoch that logged the lowest
\* validation error of the run, not those of the last epoch, so no epoch of
\* the run, later ones included, logged a lower error than the restored one
C1_RestoredBestWeights ==
    StoppedEarly =>
        /\ weights.epoch < epoch
        /\ history.lowest # Inf => weights = Snapshot(history.lowestEpoch)
C1_Witness ==
    /\ StoppedEarly
    /\ pc = "done"
    /\ history.lowest # Inf
    /\ history.lowestEpoch > 1
    /\ weights = Snapshot(history.lowestEpoch)

\* C5: once an epoch has logged a non-finite validation error the run is in
\* its error state or still inside model.fit; no later cell has run on the
\* model (stated as the claim has it; the notebook does not keep to it)
C5_DivergenceIsFatal ==
    history.nan => pc \in {"epochs", "extract", "error"}

\* C6: early stopping ends training exactly at the first epoch that makes 20
\* consecutive epochs without a new lowest validation error, never on a
\* shorter run, and its patience exceeds the patience of the step-size rule
C6_StopsAtTwentyEpochsWithoutImprovement ==
    /\ stop_training <=> history.streak = 20
    /\ history.streak <= 20
    /\ ES_patience = 20 /\ RLR_patience = 5 /\ ES_patience > RLR_patience
C6_Witness ==
    /\ StoppedEarly
    /\ history.streak = 20
    /\ history.lowestEpoch > 1
    /\ epoch = history.lowestEpoch + 20

\* C7 as stated: the step size changes only at an epoch that makes 5, 10, ...
\* consecutive epochs without a new lowest validation error, and then it is
\* multiplied by 0.1
C7_ReducedOnlyAfterFiveWithoutImprovement ==
    [][optimizer_lr' # optimizer_lr =>
          /\ optimizer_lr' = optimizer_lr + 1
          /\ history'.streak >= 5]_vars

\* C7 as amended: an epoch counts as an improvement for the step-size rule
\* only if its validation error is more than 1e-4 below the value the rule
\* last improved to; after each 5 consecutive epochs without such an
\* improvement the step size is multiplied by 0.1 once and the count starts
\* again; the step size changes at no other epoch and is never increased
C7_ReducedAfterFiveWithoutThresholdImprovement ==
    [][/\ optimizer_lr' \in {optimizer_lr, optimizer_lr + 1}
       /\ optimizer_lr' = optimizer_lr + 1 <=>
              (epoch' = epoch + 1 /\ history'.plateau = 5)]_vars
C7_Witness ==
    /\ optimizer_lr = 2
    /\ history.plateau = 5
    /\ history.streak < 5
    /\ history.lowest # Inf

\* C8: at every epoch boundary best_model.h5 holds the weights of the first
\* epoch that logged the lowest validation error so far (no file before any
\* finite error was logged), and the file is written at an epoch if and only
\* if that epoch logged a new lowest error
C8_CheckpointIsBestSoFar ==
    /\ [](ckpt.file = IF history.lowest = Inf THEN NoWeights
                      ELSE Snapshot(history.lowestEpoch))
    /\ [][ckpt'.file # ckpt.file <=>
              (epoch' = epoch + 1 /\ history'.streak = 0)]_vars
C8_Witness ==
    /\ pc = "epochs"
    /\ history.lowestEpoch > 1
    /\ epoch > history.lowestEpoch + 1
    /\ ckpt.file = Snapshot(history.lowestEpoch)
    /\ weights # ckpt.file

\* the selection cell has run
Selected == pc \in {"predict", "save", "done"}
Unparseable(i) == Chem_MolFromSmiles(files.test_features[i].smiles) = None
Parseable == {i \in DOMAIN files.test_features : ~Unparseable(i)}
Min2(a, b) == IF a <= b THEN a ELSE b

\* C2: the candidate with the strictly lower held-out RMSE is selected, and
\* on equal RMSE the linear model is selected (stated as the claim has it;
\* the notebook selects XGBoost on a tie)
C2_TieGoesToLinearRegression ==
    Selected =>
        best_model = IF scores.lr_rmse <= scores.xgb_rmse THEN lr ELSE xgb

\* C3: the two scores are the candidates' RMSE on the held-out rows, the
\* selected model is one of the two candidates and its held-out RMSE is the
\* minimum of the two scores, and the test-set predictions are the selected
\* model's
C3_SelectedHasMinimumRmse ==
    /\ Selected =>
          /\ scores.lr_rmse = rmse(split.y_val, regressor_predict(lr, split.x_val))
          /\ scores.xgb_rmse = rmse(split.y_val, regressor_predict(xgb, split.x_val))
          /\ best_model \in {lr, xgb}
          /\ rmse(split.y_val, regressor_predict(best_model, split.x_val))
                = Min2(scores.lr_rmse, scores.xgb_rmse)
    /\ pc \in {"save", "done"} =>
          predictions = regressor_predict(best_model, encoded_test_x)
C3_Witness ==
    /\ pc = "done"
    /\ scores.lr_rmse < scores.xgb_rmse
    /\ best_model = lr
    /\ Len(predictions) = NTest

\* C4: when a descriptor of the test file does not parse, there are at most
\* as many predictions as parseable rows, in memory and in results.csv, and
\* no row of results.csv carries the identifier of an unparseable row
C4_NoPredictionForMalformedRow ==
    (\E i \in DOMAIN files.test_features : Unparseable(i)) =>
        /\ Len(predictions) <= Cardinality(Parseable)
        /\ Len(results_csv) <= Cardinality(Parseable)
        /\ \A k \in DOMAIN results_csv :
               \A i \in DOMAIN files.test_features :
                   Unparseable(i) => results_csv[k].Id # files.test_features[i].Id
C4_Witness ==
    /\ Len(files.test_features) = 3
    /\ Cardinality(Parseable) = 2
    /\ pc = "error"
    /\ error = "ArgumentError"
    /\ train_x_conjoint # <<>>
    /\ predictions = <<>>
    /\ results_csv = <<>>

\* C9: when every descriptor parses the run does not fail, and results.csv
\* has one row per test row, in order: row i carries the identifier of test
\* row i and the selected model's prediction for the encoding of the
\* fingerprint of test row i
C9_OnePredictionPerRowInOrder ==
    /\ (/\ Parseable = DOMAIN files.test_features
        /\ \A i \in DOMAIN files.train_features :
               Chem_MolFromSmiles(files.train_features[i].smiles) # None
        /\ \A i \in DOMAIN files.pretrain_features :
               Chem_MolFromSmiles(files.pretrain_features[i].smiles) # None)
           => pc # "error"
    /\ pc = "done" =>
          /\ Len(results_csv) = Len(files.test_features)
          /\ \A i \in DOMAIN files.test_features :
                /\ results_csv[i].Id = files.test_features[i].Id
                /\ results_csv[i].y =
                       predict_one(best_model,
                           encode_one(weights,
                               smiles_to_fp(files.test_features[i].smiles,
                                            default_radius, default_n_bits).fp))
C9_Witness ==
    /\ pc = "done"
    /\ Len(results_csv) = NTest
    /\ files.test_features[1].smiles # files.test_features[2].smiles
    /\ results_csv[1].y # results_csv[2].y

\* C10: whatever width the model is built with, the encoder's output is as
\* wide as that input, for create_encoder and for the encoder built inside
\* create_combined_model (stated as the claim has it; the notebook fixes the
\* output at 2167)
C10_EncoderOutputWidthIsInputWidth ==
    (pc \notin {"load_pretrain", "load_train", "load_test", "create_model"}
        /\ error # "ArgumentError") =>
        /\ create_encoder(input_dim).output_width = input_dim
        /\ create_combined_model(input_dim).encoder.output_width = input_dim

\* the fingerprints a run has computed, each with the descriptor it came from
Loaded(batch, file) ==
    {[fp |-> batch[i], smiles |-> file[i].smiles] : i \in DOMAIN batch}
AllLoaded ==
    Loaded(pretrain_x_conjoint, files.pretrain_features)
        \cup Loaded(train_x_conjoint, files.train_features)
        \cup Loaded(test_x_conjoint, files.test_features)

\* C11: every fingerprint of the pretraining, training and test batches of a
\* run has n_bits + 167 positions, whatever the molecule and the bit width
\* n_bits >= 1; its first n_bits positions are the circular fingerprint of
\* the molecule and its last 167 positions are the molecule's MACCS keys
C11_FingerprintLengthAndLayout ==
    /\ n_bits_run >= 1
    /\ \A e \in AllLoaded :
          LET mol == Chem_MolFromSmiles(e.smiles)
          IN  /\ mol # None
              /\ e.fp.len = n_bits_run + 167
              /\ e.fp.on \subseteq 0..(e.fp.len - 1)
              /\ {b \in e.fp.on : b < n_bits_run}
                    = GetMorganFingerprintAsBitVect(mol, default_radius, n_bits_run).on
              /\ {b - n_bits_run : b \in {x \in e.fp.on : x >= n_bits_run}}
                    = GenMACCSKeys(mol).on
C11_Witness ==
    /\ n_bits_run = 1
    /\ Len(test_x_conjoint) = NTest
    /\ test_x_conjoint[1] # test_x_conjoint[2]
    /\ \A e \in AllLoaded : e.fp.len = 168
    /\ Cardinality(AllLoaded) = 2

\* model.fit has returned
TrainingEnded == pc \in {"extract", "split", "fit_lr", "fit_xgb", "test_models",
                         "select", "predict", "save", "done"}

\* C12: once model.fit has returned, no cell changes the encoder or its
\* weights, and every latent vector of the training set and of the test set
\* was computed with those same weights
C12_EncoderFrozenAfterTraining ==
    /\ [][TrainingEnded => (weights' = weights /\ encoder' = encoder)]_vars
    /\ [](TrainingEnded =>
            /\ \A i \in DOMAIN encoded_train_x : encoded_train_x[i].w = weights.epoch
            /\ \A i \in DOMAIN encoded_test_x : encoded_test_x[i].w = weights.epoch)
C12_Witness ==
    /\ pc = "done"
    /\ weights.epoch > 1
    /\ weights.epoch < epoch
    /\ Len(encoded_train_x) = NRows
    /\ Len(encoded_test_x) = NTest
    /\ encoded_train_x[1].w = weights.epoch
    /\ encoded_test_x[1].w = weights.epoch

\* extract applied to the one-row batch [fp], first row of the result
extract_alone(fp) == encode_one(weights, fp)

\* C13: with the trained encoder fixed, row i of the latent vectors of a
\* batch is what extract returns for the one-row batch made of fingerprint i
\* alone, for the training batch and for the test batch, so it depends on no
\* other row, and equal fingerprints have equal latent vectors wherever they
\* stand
C13_ExtractHasNoCrossRowInteraction ==
    /\ encoded_train_x # <<>> =>
          /\ Len(encoded_train_x) = Len(train_x_conjoint)
          /\ \A i \in DOMAIN train_x_conjoint :
                 encoded_train_x[i] = extract_alone(train_x_conjoint[i])
    /\ encoded_test_x # <<>> =>
          /\ Len(encoded_test_x) = Len(test_x_conjoint)
          /\ \A i \in DOMAIN test_x_conjoint :
                /\ encoded_test_x[i] = extract_alone(test_x_conjoint[i])
                /\ \A j \in DOMAIN train_x_conjoint :
                       test_x_conjoint[i] = train_x_conjoint[j]
                           => encoded_test_x[i] = encoded_train_x[j]
C13_Witness ==
    /\ pc = "done"
    /\ Len(test_x_conjoint) = 3
    /\ test_x_conjoint[1] # test_x_conjoint[2]
    /\ test_x_conjoint[3] = test_x_conjoint[1]
    /\ encoded_test_x[2] = extract_alone(test_x_conjoint[2])
    /\ encoded_test_x[2] # encoded_test_x[1]

\* the rows of seq at the positions idx, in the order idx lists them
Rows(seq, idx) == [i \in DOMAIN idx |-> seq[idx[i]]]

\* fit and held are sequences of row numbers of the target dataset that
\* have no row in common and together list every row exactly once
IsPartition(fit, held, n) ==
    /\ Len(fit) + Len(held) = n
    /\ {fit[i] : i \in DOMAIN fit} \cap {held[i] : i \in DOMAIN held} = {}
    /\ {fit[i] : i \in DOMAIN fit} \cup {held[i] : i \in DOMAIN held} = 1..n

\* C14: the split takes its fit subset and its held-out subset from row
\* numbers of the target dataset that are disjoint and together are all the
\* rows, the held-out subset being a tenth of the rows rounded up; each
\* candidate is fitted on the fit subset and its labels, nothing else, and
\* both scores are computed on the held-out subset
C14_FitAndHeldOutAreDisjoint ==
    /\ split # NoSplit =>
          LET n == Len(encoded_train_x)
              k == (n + 9) \div 10
          IN  \E held \in [1..k -> 1..n], fit \in [1..(n - k) -> 1..n] :
                  /\ IsPartition(fit, held, n)
                  /\ split.x = Rows(encoded_train_x, fit)
                  /\ split.y = Rows(train_y, fit)
                  /\ split.x_val = Rows(encoded_train_x, held)
                  /\ split.y_val = Rows(train_y, held)
    /\ lr # NoModel => (lr.X = split.x /\ lr.Y = split.y)
    /\ xgb # NoModel => (xgb.X = split.x /\ xgb.Y = split.y)
    /\ Selected =>
          /\ scores.lr_rmse = rmse(split.y_val, regressor_predict(lr, split.x_val))
          /\ scores.xgb_rmse = rmse(split.y_val, regressor_predict(xgb, split.x_val))
C14_Witness ==
    /\ pc = "done"
    /\ split.x_val = <<encoded_train_x[2]>>
    /\ split.y_val = <<train_y[2]>>
    /\ lr.X = <<encoded_train_x[1]>>
    /\ xgb.Y = <<train_y[1]>>
    /\ encoded_train_x[1] # encoded_train_x[2]
    /\ scores.lr_rmse # scores.xgb_rmse

\* the stage of the pipeline the cell that runs next belongs to: 1
\* fingerprinting, 2 representation training, 3 feature extraction, 4
\* regressor fitting and selection, 5 inference, 6 finished; 0 after an error
Stage(p) ==
    CASE p \in {"load_pretrain", "load_train", "load_test"} -> 1
      [] p \in {"create_model", "callbacks", "fit", "epochs"} -> 2
      [] p = "extract" -> 3
      [] p \in {"split", "fit_lr", "fit_xgb", "test_models", "select"} -> 4
      [] p \in {"predict", "save"} -> 5
      [] p = "done" -> 6
      [] OTHER -> 0

\* C16: the run moves through the stages in order, one stage at a time and
\* never back; what a stage produces exists only when the stage before it
\* has completed: no epoch is trained before the three batches are
\* fingerprinted, no latent vector exists before model.fit has ended
\* (stopped early or at the cap) and no epoch is trained after that, no
\* regressor is fitted before extraction, none is selected before both are
\* scored, and no prediction exists before a model is selected
C16_StagesRunInOrder ==
    /\ [][/\ (pc # "error" /\ pc' # "error")
              => Stage(pc') \in {Stage(pc), Stage(pc) + 1}
          /\ pc = "error" => pc' = "error"
          /\ Stage(pc) >= 3 => epoch' = epoch]_vars
    /\ [](/\ epoch > 0 =>
              (pretrain_x_conjoint # <<>> /\ train_x_conjoint # <<>>
                  /\ test_x_conjoint # <<>>)
          /\ encoded_train_x # <<>> =>
              (pc # "epochs" /\ (stop_training \/ epoch >= epochs))
          /\ (split # NoSplit \/ lr # NoModel \/ xgb # NoModel) =>
              encoded_train_x # <<>>
          /\ best_model # NoModel =>
              (lr # NoModel /\ xgb # NoModel /\ best_model \in {lr, xgb}
                  /\ Stage(pc) \in {0, 5, 6})
          /\ (encoded_test_x # <<>> \/ predictions # <<>>) =>
              best_model # NoModel
          /\ results_csv # <<>> => predictions # <<>>)
C16_Witness ==
    /\ pc = "done"
    /\ epoch > ES_patience
    /\ encoded_train_x # <<>>
    /\ best_model # NoModel
    /\ predictions # <<>>
    /\ results_csv # <<>>

\* C17: whenever model.fit has returned, by early stopping or at the cap of
\* 100 epochs, and some epoch logged a finite validation error, the weights
\* the encoder carries are those of an epoch that logged the lowest
\* validation error of the run: the first such epoch, or the last epoch of
\* the run if it logged that lowest value too (stated as the claim has it;
\* at the cap the notebook keeps the weights of the last epoch)
C17_BestWeightsWheneverTrainingEnds ==
    (TrainingEnded /\ history.lowest # Inf) =>
        \/ weights = Snapshot(history.lowestEpoch)
        \/ (weights = Snapshot(epoch) /\ history.atLowest)

\* C18: whatever validation errors the epochs log, model.fit never runs more
\* than 100 epochs, every step inside it completes one more epoch, it
\* returns only because early stopping asked for it or because 100 epochs
\* ran, and once started it eventually returns
C18_TrainingTerminates ==
    /\ [](epoch <= epochs)
    /\ [][(pc = "epochs" /\ pc' = "epochs") => epoch' = epoch + 1]_vars
    /\ [](TrainingEnded => (StoppedEarly \/ epoch = epochs))
    /\ (pc = "epochs") ~> (pc = "extract")
C18_Witness ==
    /\ pc = "extract"
    /\ epoch = epochs
    /\ ~stop_training
    /\ history.streak < ES_patience

\* C19: when early stopping has ended training, the step size is smaller
\* than it was at the end of the last epoch that logged a new lowest
\* validation error (than the initial step size, if no epoch logged a finite
\* error): it was reduced at least once during the 20 epochs without
\* improvement
C19_ReducedBeforeEarlyStop ==
    StoppedEarly =>
        /\ history.streak = ES_patience
        /\ optimizer_lr >= history.lrAtLowest + 1
C19_Witness ==
    /\ StoppedEarly
    /\ history.lowestEpoch > 1
    /\ history.lrAtLowest >= 1
    /\ optimizer_lr = history.lrAtLowest + 4
    /\ pc = "done"

\* the label a labels file gives for a row identifier
LabelOf(labels, id) == (CHOOSE i \in DOMAIN labels : labels[i].Id = id)

\* C15: in the arrays model.fit and train_test_split receive, the label at
\* position i is the label whose Id is the Id of the descriptor that
\* fingerprint i was computed from, for the pretraining set and for the
\* training set, whatever the row order of the files (stated as the claim
\* has it; the notebook pairs the two files by position)
C15_LabelsPairedById ==
    /\ pretrain_y # <<>> =>
          \A i \in DOMAIN pretrain_x_conjoint :
              pretrain_y[i] =
                  files.pretrain_labels[LabelOf(files.pretrain_labels,
                                                files.pretrain_features[i].Id)].y
    /\ train_y # <<>> =>
          \A i \in DOMAIN train_x_conjoint :
              train_y[i] =
                  files.train_labels[LabelOf(files.train_labels,
                                             files.train_features[i].Id)].y
====
